---- MODULE Spec2Model ----
(***************************************************************************)
(* Model of lib/parserlist.js: the ParserList singleton (the registry of   *)
(* domains and platforms), its queue of missing domains and the            *)
(* domains.miss.csv file the queue is drained to.                          *)
(*                                                                         *)
(* Node.js runs one callback at a time, so every synchronous method is one *)
(* action; an async method is one action per stretch of code between two   *)
(* awaits.                                                                 *)
(***************************************************************************)
EXTENDS Integers, Sequences, FiniteSets, TLC

\* Hostnames and platform short names the callers use.
Dom == {"a.com", "b.com"}
\* The keys of this.domains: the hostnames, the empty line that
\* `domain\n${lines.join('\n')}` (line 213) leaves in the file, and a hostname
\* in capitals that only a former run left in the file.
Key == Dom \cup {"", "C.com"}
Plat == {"P", "Q"}
\* The directories of platformsDir. A parser file is parser.js of one of them
\* (line 223), so it is named by its directory.
Dir == {"P", "Q"}
File == Dir

\* The parser object built at parserlist.js:233-238 (platformName and
\* publisherName are carried along and never read by this module).
Binding == [platform : Plat, file : File]
NoBinding == [platform |-> "-", file |-> "-"]
\* The parser of a platform whose directory bears its short name.
Parser(p) == [platform |-> p, file |-> p]

\* Bounds of the exploration: the writeMiss calls made in all, and the get
\* calls among them that miss with write enabled.
MaxWrites == 4
MaxMisses == 2

\* A value of the Map this.domains: no entry, false, or an array of parsers.
NoEntry == [kind |-> "absent", list |-> <<>>]
Miss == [kind |-> "false", list |-> <<>>]
Parsers(l) == [kind |-> "list", list |-> l]

\* An entry of the Map this.platforms: { parser, domains: Set }.
NoPlatform == [has |-> FALSE, parser |-> NoBinding, domains |-> {}]
PlatformEntry(b, ds) == [has |-> TRUE, parser |-> b, domains |-> ds]

VARIABLES
    domains,    \* this.domains: Dom -> NoEntry | Miss | Parsers(..)
    platforms,  \* this.platforms: Plat -> NoPlatform | PlatformEntry(..)
    props,      \* own properties set on the this.domains object (line 108)
    missQueue,  \* this.missQueue
    appending,  \* Dom -> number of writeMiss loops awaiting appendFile of it
    missFile,   \* lines of domains.miss.csv; <<>> when the file is absent
    pc,         \* where init() is: "idle", or the await it is suspended at
    locals,     \* the local variables of init() and of its addDomainsOf()
    last,       \* the last call made and how it ended
    enqueued,   \* history: every domain pushed by writeMiss, in order
    failed,     \* history: whether an appendFile has been rejected
    cached,     \* the parser files that are keys of require.cache
    owed,       \* history: the domains enqueued before init() was last called
    rebuilt     \* history: whether an init() has resolved

vars ==
    <<domains, platforms, props, missQueue, appending, missFile, pc, locals, last,
      enqueued, failed, cached, owed, rebuilt>>

Call(op, d, p, threw, ret) ==
    [op |-> op, dom |-> d, plat |-> p, threw |-> threw, ret |-> ret]

\* constructor(), parserlist.js:16-20
EmptyDomains == [d \in Key |-> NoEntry]
EmptyPlatforms == [p \in Plat |-> NoPlatform]

\* The file as the scan of a former run left it.
InitFiles == { <<>>, <<"domain">> }

\* The lines that may follow the first line of a file found by init(), the
\* longest run of them, and the files: absent, or a first line (the header,
\* the header with a blank after it, an empty line, a hostname) and lines.
Line == Key
MaxLines == 3
FirstLine == {"domain", "domain ", "", "a.com"}
RECURSIVE LinesUpTo(_)
LinesUpTo(n) ==
    IF n = 0 THEN {<<>>}
    ELSE LET shorter == LinesUpTo(n - 1)
         IN  shorter \cup {Append(l, x) : l \in shorter, x \in Line}
FoundFiles == {<<>>} \cup {<<h>> \o l : h \in FirstLine, l \in LinesUpTo(MaxLines)}

\* The locals of init() before it has set any.
NoLocals ==
    [items |-> <<>>, item |-> "-", parser |-> NoBinding, domains |-> {},
     pkb |-> FALSE, lines |-> <<>>]

Init ==
    /\ domains = EmptyDomains
    /\ platforms = EmptyPlatforms
    /\ props = {}
    /\ missQueue = <<>>
    /\ appending = [d \in Dom |-> 0]
    /\ missFile \in InitFiles
    /\ pc = "idle"
    /\ locals = NoLocals
    /\ last = Call("new", "-", "-", FALSE, NoEntry)
    /\ enqueued = <<>>
    /\ failed = FALSE
    /\ cached = {}
    /\ owed = {}
    /\ rebuilt = FALSE

----------------------------------------------------------------------------
\* The missing-domain queue.

RECURSIVE Total(_, _)
Total(a, S) ==
    IF S = {} THEN 0
    ELSE LET d == CHOOSE x \in S : TRUE IN a[d] + Total(a, S \ {d})

\* The writeMiss loops that await an appendFile.
Loops == Total(appending, Dom)

\* fs.appendFile(missFile, `\n${currentDomain}`): an absent file is created.
AppendLine(f, d) == IF f = <<>> THEN <<"", d>> ELSE Append(f, d)

\* writeMiss without the test of line 29: every caller enters the loop.
PushMissUnchecked(q, a, d) ==
    LET q1 == Append(q, d)
    IN  [queue |-> q1, appending |-> [a EXCEPT ![q1[1]] = @ + 1]]

\* writeMiss up to its first await (lines 27-35): push, return unless the
\* queue holds exactly one element, else start appending the front.
PushMiss(q, a, d) ==
    LET q1 == Append(q, d)
    IN  IF Len(q1) # 1
        THEN [queue |-> q1, appending |-> a]
        ELSE [queue |-> q1, appending |-> [a EXCEPT ![q1[1]] = @ + 1]]

\* Array.prototype.shift
Shift(q) == IF q = <<>> THEN q ELSE Tail(q)

\* writeMiss(domain) as far as its first await. A caller that finds another
\* domain queued returns here.
Enqueue(d) ==
    /\ LET r == PushMiss(missQueue, appending, d)
       IN  /\ missQueue' = r.queue
           /\ appending' = r.appending
    /\ enqueued' = Append(enqueued, d)
    /\ UNCHANGED failed

WriteMiss(d) ==
    /\ Len(enqueued) < MaxWrites
    /\ Enqueue(d)
    /\ last' = Call("writeMiss", d, "-", FALSE, NoEntry)
    /\ UNCHANGED <<domains, platforms, props, missFile, pc, locals, cached, owed,
                 rebuilt>>

\* The loop without the shift of line 37.
AfterAppendNoShift(q, a, d) ==
    [queue |-> q, appending |-> a]

\* The loop after a resolved appendFile (lines 36-39, 31-35): shift, then
\* either leave the loop or start appending the new front.
AfterAppend(q, a, d) ==
    LET q1 == Shift(q)
        a1 == [a EXCEPT ![d] = @ - 1]
    IN  IF Len(q1) > 0
        THEN [queue |-> q1, appending |-> [a1 EXCEPT ![q1[1]] = @ + 1]]
        ELSE [queue |-> q1, appending |-> a1]

\* The loop after a rejected appendFile (lines 34-38): finally shifts, the
\* rejection leaves the while loop and rejects the promise of writeMiss.
AfterFailedAppend(q, a, d) ==
    [queue |-> Shift(q), appending |-> [a EXCEPT ![d] = @ - 1]]

AppendOk(d) ==
    /\ appending[d] > 0
    /\ missFile' = AppendLine(missFile, d)
    /\ LET r == AfterAppend(missQueue, appending, d)
       IN  /\ missQueue' = r.queue
           /\ appending' = r.appending
    /\ last' = Call("appended", d, "-", FALSE, NoEntry)
    /\ UNCHANGED <<domains, platforms, props, pc, locals, enqueued, failed, cached,
                 owed, rebuilt>>

AppendFail(d) ==
    /\ appending[d] > 0
    /\ LET r == AfterFailedAppend(missQueue, appending, d)
       IN  /\ missQueue' = r.queue
           /\ appending' = r.appending
    /\ last' = Call("appended", d, "-", TRUE, NoEntry)
    /\ failed' = TRUE
    /\ UNCHANGED <<domains, platforms, props, missFile, pc, locals, enqueued, cached,
                 owed, rebuilt>>

----------------------------------------------------------------------------
\* The registry.

Has(doms, d) == doms[d].kind # "absent"

\* addMiss(domain), lines 60-66
AddMissResult(doms, d) ==
    IF ~Has(doms, d) THEN [domains |-> [doms EXCEPT ![d] = Miss], ret |-> TRUE]
    ELSE [domains |-> doms, ret |-> FALSE]

AddMiss(d) ==
    /\ LET r == AddMissResult(domains, d)
       IN  /\ domains' = r.domains
           /\ last' = Call("addMiss", d, "-", FALSE,
                           IF r.ret THEN [kind |-> "true", list |-> <<>>] ELSE Miss)
    /\ UNCHANGED <<platforms, props, missQueue, appending, missFile, pc, locals,
                 enqueued, failed, cached, owed, rebuilt>>

\* add pushing the parser whether or not the platform owns the domain.
AddResultAlwaysPush(doms, plats, d, b) ==
    LET p == b.platform
        doms1 == IF ~Has(doms, d) THEN [doms EXCEPT ![d] = Parsers(<<>>)] ELSE doms
        plats1 == IF ~plats[p].has
                  THEN [plats EXCEPT ![p] = PlatformEntry(b, {})]
                  ELSE plats
    IN  IF doms1[d].kind # "list"
        THEN [domains |-> doms1, platforms |-> plats1, threw |-> TRUE]
        ELSE [domains |-> [doms1 EXCEPT ![d] = Parsers(Append(@.list, b))],
              platforms |-> [plats1 EXCEPT ![p].domains = @ \cup {d}],
              threw |-> FALSE]

\* add(domain, parser), lines 77-96. false.push is a TypeError: the call
\* ends there, with the entries of lines 81-88 already made.
AddResult(doms, plats, d, b) ==
    LET p == b.platform
        doms1 == IF ~Has(doms, d) THEN [doms EXCEPT ![d] = Parsers(<<>>)] ELSE doms
        plats1 == IF ~plats[p].has
                  THEN [plats EXCEPT ![p] = PlatformEntry(b, {})]
                  ELSE plats
    IN  IF d \in plats1[p].domains
        THEN [domains |-> doms1, platforms |-> plats1, threw |-> FALSE]
        ELSE IF doms1[d].kind # "list"
        THEN [domains |-> doms1, platforms |-> plats1, threw |-> TRUE]
        ELSE [domains |-> [doms1 EXCEPT ![d] = Parsers(Append(@.list, b))],
              platforms |-> [plats1 EXCEPT ![p].domains = @ \cup {d}],
              threw |-> FALSE]

Add(d, b) ==
    /\ LET r == AddResult(domains, platforms, d, b)
       IN  /\ domains' = r.domains
           /\ platforms' = r.platforms
           /\ last' = Call("add", d, b.platform, r.threw, NoEntry)
    /\ UNCHANGED <<props, missQueue, appending, missFile, pc, locals, enqueued, failed,
                 cached, owed, rebuilt>>

\* get returning this.domains.get(domain) on every path.
GetReturnEntry(doms, d) == doms[d]

\* What get(domain) returns, lines 105-110: the entry of the Map or false.
GetReturn(doms, d) == IF Has(doms, d) THEN doms[d] ELSE Miss

\* get(domain, write), lines 104-111. Line 108 sets a property of the Map
\* object, not an entry of the Map.
Get(d, write) ==
    /\ IF Has(domains, d)
       THEN UNCHANGED <<props, missQueue, appending, enqueued, failed>>
       ELSE /\ props' = props \cup {d}
            /\ IF write
               THEN /\ Len(enqueued) < MaxMisses
                    /\ Enqueue(d)
               ELSE UNCHANGED <<missQueue, appending, enqueued, failed>>
    /\ last' = Call("get", d, IF write THEN "write" ELSE "nowrite", FALSE,
                    GetReturn(domains, d))
    /\ UNCHANGED <<domains, platforms, missFile, pc, locals, cached, owed, rebuilt>>

\* What getFromPlatform(name) returns, lines 118-121: the parser of the
\* platform's entry, or undefined.
GetFromPlatformReturn(plats, name) ==
    IF plats[name].has THEN plats[name].parser ELSE NoBinding

\* getFromPlatform(name), lines 118-121
GetFromPlatform(name) ==
    /\ last' = Call("getFromPlatform", "-", name, FALSE,
                     IF platforms[name].has
                     THEN [kind |-> "parser", list |-> <<platforms[name].parser>>]
                     ELSE [kind |-> "undefined", list |-> <<>>])
    /\ UNCHANGED <<domains, platforms, props, missQueue, appending, missFile, pc, locals,
                 enqueued, failed, cached, owed, rebuilt>>

\* clearPlatform(name), lines 142-150
ClearResult(doms, plats, p) ==
    IF ~plats[p].has
    THEN [domains |-> doms, platforms |-> plats]
    ELSE [domains |-> [d \in Key |-> IF d \in plats[p].domains THEN NoEntry ELSE doms[d]],
          platforms |-> [plats EXCEPT ![p] = NoPlatform]]

ClearPlatform(p) ==
    /\ LET r == ClearResult(domains, platforms, p)
       IN  /\ domains' = r.domains
           /\ platforms' = r.platforms
    /\ last' = Call("clearPlatform", "-", p, FALSE, NoEntry)
    /\ UNCHANGED <<props, missQueue, appending, missFile, pc, locals, enqueued, failed,
                 cached, owed, rebuilt>>

----------------------------------------------------------------------------
\* init() and addDomainsOf(): the scan of platformsDir and the rewrite of
\* domains.miss.csv. What the file system answers is the environment's choice.

\* What readdir(platformsDir) may list, after the filter of line 180.
Listings == { <<>>, <<"P">>, <<"Q">>, <<"P", "Q">> }

\* A parsed manifest.json: name ("" when missing), domains (hasDomains false
\* when the field is missing), and whether 'pkb-domains' names a field.
Manifest ==
    { m \in [name : Plat \cup {""}, hasDomains : BOOLEAN, domains : SUBSET Dom,
             pkb : BOOLEAN] : ~m.hasDomains => m.domains = {} }

\* The place of a string in the order of `>` on strings (line 211); it is
\* also the order forEach visits the domains of a manifest or of the records in.
Rank(line) ==
    CASE line = "" -> 0
      [] line = "C.com" -> 1
      [] line = "a.com" -> 2
      [] line = "b.com" -> 3
      [] line = "c.com" -> 4
      [] OTHER -> 5

\* String.prototype.toLowerCase and String.prototype.trim on the strings met.
ToLowerCase(line) == IF line = "C.com" THEN "c.com" ELSE line
Trim(line) == IF line = "domain " THEN "domain" ELSE line

RECURSIVE InOrder(_)
InOrder(S) ==
    IF S = {} THEN <<>>
    ELSE LET d == CHOOSE x \in S : \A y \in S : Rank(x) <= Rank(y)
         IN  <<d>> \o InOrder(S \ {d})

\* domains.forEach(domain => this.add(domain, parser)), lines 240 and
\* 267-272: a TypeError of add ends the forEach.
RECURSIVE AddAll(_, _, _, _)
AddAll(doms, plats, ds, b) ==
    IF ds = <<>> THEN [domains |-> doms, platforms |-> plats, threw |-> FALSE]
    ELSE LET r == AddResult(doms, plats, Head(ds), b)
         IN  IF r.threw THEN r
             ELSE AddAll(r.domains, r.platforms, Tail(ds), b)

\* lines.filter(domain => this.addMiss(domain)), line 210
RECURSIVE FilterMiss(_, _)
FilterMiss(doms, lines) ==
    IF lines = <<>> THEN [domains |-> doms, lines |-> <<>>]
    ELSE LET r == AddMissResult(doms, Head(lines))
             rest == FilterMiss(r.domains, Tail(lines))
         IN  [domains |-> rest.domains,
              lines |-> IF r.ret THEN <<Head(lines)>> \o rest.lines ELSE rest.lines]

\* .sort((a, b) => (a.toLowerCase() > b.toLowerCase() ? 1 : -1)), line 211,
\* of lines that differ (the filter keeps no line twice).
RECURSIVE SortLines(_)
SortLines(lines) ==
    IF lines = <<>> THEN <<>>
    ELSE LET i == CHOOSE k \in 1..Len(lines) :
                      \A j \in 1..Len(lines) :
                          Rank(ToLowerCase(lines[k])) <= Rank(ToLowerCase(lines[j]))
         IN  <<lines[i]>> \o
             SortLines([j \in 1..(Len(lines) - 1) |->
                           IF j < i THEN lines[j] ELSE lines[j + 1]])

\* init() rejects: the promise ends with the error, nothing after it runs.
Reject(cause) ==
    /\ pc' = "idle"
    /\ locals' = NoLocals
    /\ last' = Call("init", "-", locals.item, TRUE, [kind |-> cause, list |-> <<>>])

\* The for loop leaving for line 195 with its last item still to come.
NextItemButLast(items) ==
    /\ IF Len(items) <= 1
       THEN /\ pc' = "readFile"
            /\ locals' = NoLocals
       ELSE /\ pc' = "stat"
            /\ locals' = [NoLocals EXCEPT !.items = Tail(items), !.item = Head(items)]
    /\ last' = Call("init", "-", locals.item, FALSE, [kind |-> "running", list |-> <<>>])

\* The for loop of lines 182-188 takes its next item, or leaves for line 195.
NextItem(items) ==
    /\ IF items = <<>>
       THEN /\ pc' = "readFile"
            /\ locals' = NoLocals
       ELSE /\ pc' = "stat"
            /\ locals' = [NoLocals EXCEPT !.items = Tail(items), !.item = Head(items)]
    /\ last' = Call("init", "-", locals.item, FALSE, [kind |-> "running", list |-> <<>>])

\* init(), lines 169-176: callers serialize their rebuilds.
InitCall ==
    /\ pc = "idle"
    /\ domains' = EmptyDomains
    /\ platforms' = EmptyPlatforms
    /\ props' = {}
    /\ missQueue' = <<>>
    /\ pc' = "readdir"
    /\ locals' = NoLocals
    /\ last' = Call("init", "-", "-", FALSE, [kind |-> "running", list |-> <<>>])
    /\ owed' = {enqueued[i] : i \in 1..Len(enqueued)}
    /\ UNCHANGED <<appending, missFile, enqueued, failed, cached, rebuilt>>

\* line 176 resumes
ReaddirDone ==
    /\ pc = "readdir"
    /\ \/ Reject("readdir")
       \/ \E l \in Listings : NextItem(l)
    /\ UNCHANGED <<domains, platforms, props, missQueue, appending, missFile, enqueued,
                 failed, cached, owed, rebuilt>>

\* line 183 resumes
StatDone ==
    /\ pc = "stat"
    /\ \/ Reject("stat")
       \/ NextItem(locals.items)
       \/ /\ pc' = "manifest"
          /\ UNCHANGED <<locals, last>>
    /\ UNCHANGED <<domains, platforms, props, missQueue, appending, missFile, enqueued,
                 failed, cached, owed, rebuilt>>

\* addDomainsOf, line 226 resumes; lines 228-231
ManifestDone ==
    /\ pc = "manifest"
    /\ \/ Reject("manifest")
       \/ Reject("json")
       \/ \E m \in Manifest :
            IF m.name = "" \/ (~m.hasDomains /\ ~m.pkb)
            THEN NextItem(locals.items)
            ELSE /\ pc' = "parser"
                 /\ locals' = [locals EXCEPT
                        !.parser = [platform |-> m.name, file |-> locals.item],
                        !.domains = m.domains, !.pkb = m.pkb]
                 /\ UNCHANGED last
    /\ UNCHANGED <<domains, platforms, props, missQueue, appending, missFile, enqueued,
                 failed, cached, owed, rebuilt>>

\* addDomainsOf, line 231 resumes; lines 233-246
ParserDone ==
    /\ pc = "parser"
    /\ \/ /\ Reject("parser")
          /\ UNCHANGED <<domains, platforms>>
       \/ LET r == AddAll(domains, platforms, InOrder(locals.domains), locals.parser)
          IN  /\ domains' = r.domains
              /\ platforms' = r.platforms
              /\ IF r.threw THEN Reject("add")
                 ELSE IF ~locals.pkb THEN NextItem(locals.items)
                 ELSE /\ pc' = "pkbdir"
                      /\ UNCHANGED <<locals, last>>
    /\ UNCHANGED <<props, missQueue, appending, missFile, enqueued, failed, cached,
                 owed, rebuilt>>

\* addDomainsOf, line 246 resumes; lines 248-265
PkbDirDone ==
    /\ pc = "pkbdir"
    /\ \/ Reject("pkbdir")
       \/ NextItem(locals.items)
       \/ /\ pc' = "extract"
          /\ UNCHANGED <<locals, last>>
    /\ UNCHANGED <<domains, platforms, props, missQueue, appending, missFile, enqueued,
                 failed, cached, owed, rebuilt>>

\* addDomainsOf, line 260 resumes; lines 267-272
ExtractDone ==
    /\ pc = "extract"
    /\ \/ /\ Reject("extract")
          /\ UNCHANGED <<domains, platforms>>
       \/ \E ds \in SUBSET Dom :
            LET r == AddAll(domains, platforms, InOrder(ds), locals.parser)
            IN  /\ domains' = r.domains
                /\ platforms' = r.platforms
                /\ IF r.threw THEN Reject("add") ELSE NextItem(locals.items)
    /\ UNCHANGED <<props, missQueue, appending, missFile, enqueued, failed, cached,
                 owed, rebuilt>>

\* Lines 209-213 up to the await: filter, sort, start the rewrite.
Reconcile(lines) ==
    LET r == FilterMiss(domains, lines)
    IN  /\ domains' = r.domains
        /\ pc' = "writeFile"
        /\ locals' = [NoLocals EXCEPT !.lines = SortLines(r.lines)]
        /\ UNCHANGED last

\* line 197 resumes; lines 198-213. An absent file reads as '' (ENOENT).
ReadFileDone ==
    /\ pc = "readFile"
    /\ \/ /\ Reject("readFile")
          /\ UNCHANGED domains
       \/ LET lines == IF missFile = <<>> THEN <<"">> ELSE missFile
          IN  IF Trim(Head(lines)) # "domain"
              THEN /\ pc' = "writeHeader"
                   /\ locals' = [NoLocals EXCEPT !.lines = Tail(lines)]
                   /\ UNCHANGED <<domains, last>>
              ELSE Reconcile(Tail(lines))
    /\ UNCHANGED <<platforms, props, missQueue, appending, missFile, enqueued, failed,
                 cached, owed, rebuilt>>

\* line 206 resumes; lines 209-213
WriteHeaderDone ==
    /\ pc = "writeHeader"
    /\ \/ /\ Reject("writeFile")
          /\ UNCHANGED <<domains, missFile>>
       \/ /\ missFile' = <<"domain">>
          /\ Reconcile(locals.lines)
    /\ UNCHANGED <<platforms, props, missQueue, appending, enqueued, failed, cached,
                 owed, rebuilt>>

\* `domain\n${lines.join('\n')}`, line 213, as the lines of the file: the
\* join of no line is '', which leaves an empty line after the header.
LedgerTextNoHeader(lines) == IF lines = <<>> THEN <<"">> ELSE lines
LedgerText(lines) == <<"domain">> \o (IF lines = <<>> THEN <<"">> ELSE lines)

\* line 213 resumes: init() resolves
WriteFileDone ==
    /\ pc = "writeFile"
    /\ \/ /\ Reject("writeFile")
          /\ UNCHANGED <<missFile, rebuilt>>
       \/ /\ missFile' = LedgerText(locals.lines)
          /\ pc' = "idle"
          /\ locals' = NoLocals
          /\ last' = Call("init", "-", "-", FALSE, [kind |-> "resolved", list |-> <<>>])
          /\ rebuilt' = TRUE
    /\ UNCHANGED <<domains, platforms, props, missQueue, appending, enqueued, failed,
                 cached, owed>>

----------------------------------------------------------------------------
\* The module cache of the parsers, require.cache.

\* The pipeline loads the parser of a registered platform: Node.js keeps the
\* module under the key require.resolve(parser.file) (line 159).
Require(p) ==
    /\ platforms[p].has
    /\ cached' = cached \cup {platforms[p].parser.file}
    /\ last' = Call("require", "-", p, FALSE, NoEntry)
    /\ UNCHANGED <<domains, platforms, props, missQueue, appending, missFile, pc, locals,
                 enqueued, failed, owed, rebuilt>>

\* What `for (const { parser } in this.platforms.values())`, line 157, visits:
\* for...in runs over the enumerable string-keyed properties of the iterator
\* object that values() returns, and that object has none.
Visited(plats) == {}

\* clearCachedParsers(), lines 156-164
ClearCachedParsers ==
    /\ cached' = cached \ {platforms[p].parser.file : p \in Visited(platforms)}
    /\ last' = Call("clearCachedParsers", "-", "-", FALSE, NoEntry)
    /\ UNCHANGED <<domains, platforms, props, missQueue, appending, missFile, pc, locals,
                 enqueued, failed, owed, rebuilt>>

-----------------------------------------------------------------------------

\* The calls and completions of the missing-domain queue.
NextLedger ==
    \/ \E d \in Dom : WriteMiss(d)
    \/ \E d \in Dom : AppendOk(d)
    \/ \E d \in Dom : AppendFail(d)

\* The calls of the registry, each platform with its one parser.
NextRegistry ==
    \/ \E d \in Dom : AddMiss(d)
    \/ \E d \in Dom, p \in Plat : Add(d, Parser(p))
    \/ \E d \in Dom, w \in BOOLEAN : Get(d, w)
    \/ \E p \in Plat : ClearPlatform(p)

\* The steps of a rebuild.
NextInit ==
    \/ InitCall
    \/ ReaddirDone
    \/ StatDone
    \/ ManifestDone
    \/ ParserDone
    \/ PkbDirDone
    \/ ExtractDone
    \/ ReadFileDone
    \/ WriteHeaderDone
    \/ WriteFileDone

\* The module cache under the loads of the pipeline and the hot reload.
NextCache ==
    \/ \E d \in Dom : \E p \in Plat : Add(d, Parser(p))
    \/ \E p \in Plat : ClearPlatform(p)
    \/ \E p \in Plat : Require(p)
    \/ ClearCachedParsers
CacheSpec == Init /\ [][NextCache]_vars

\* The registry under callers that pass any parser object to add.
NextBinding ==
    \/ \E d \in Dom : \E b \in Binding : Add(d, b)
    \/ \E p \in Plat : GetFromPlatform(p)
    \/ \E p \in Plat : ClearPlatform(p)
BindingSpec == Init /\ [][NextBinding]_vars

Next ==
    \/ NextLedger
    \/ NextRegistry
    \/ \E d \in Dom, b \in Binding : Add(d, b)
    \/ NextInit
    \/ \E p \in Plat : Require(p)
    \/ ClearCachedParsers
    \/ \E p \in Plat : GetFromPlatform(p)

Spec == Init /\ [][Next]_vars

\* An appendFile that was started ends, one way or the other.
AppendDone == \E d \in Dom : AppendOk(d) \/ AppendFail(d)

\* The callers of writeMiss alone.
LedgerSpec == Init /\ [][NextLedger]_vars /\ WF_vars(AppendDone)

\* The callers of the registry; get is the only caller of writeMiss.
NextLookup ==
    \/ NextRegistry
    \/ \E d \in Dom : AppendOk(d)
    \/ \E d \in Dom : AppendFail(d)

RegistrySpec == Init /\ [][NextLookup]_vars

\* A rebuild alone.
InitSpec == Init /\ [][NextInit]_vars

\* Rebuilds over the files a former run may have left.
InitFound ==
    /\ domains = EmptyDomains
    /\ platforms = EmptyPlatforms
    /\ props = {}
    /\ missQueue = <<>>
    /\ appending = [d \in Dom |-> 0]
    /\ missFile \in FoundFiles
    /\ pc = "idle"
    /\ locals = NoLocals
    /\ last = Call("new", "-", "-", FALSE, NoEntry)
    /\ enqueued = <<>>
    /\ failed = FALSE
    /\ cached = {}
    /\ owed = {}
    /\ rebuilt = FALSE
ReconcileSpec == InitFound /\ [][NextInit]_vars

\* Rebuilds while the pipeline looks hostnames up and the appends complete.
NextRebuild ==
    \/ NextInit
    \/ \E d \in Dom : Get(d, TRUE)
    \/ \E d \in Dom : AppendOk(d)
    \/ \E d \in Dom : AppendFail(d)
RebuildSpec == Init /\ [][NextRebuild]_vars

\* The registry under rebuilds and under its callers, who change it at any
\* point of a rebuild and look hostnames up, the file left alone, between
\* rebuilds. The first rebuild finds no file.
NextCatalog ==
    \/ NextInit
    \/ \E d \in Dom : AddMiss(d)
    \/ \E d \in Dom : \E p \in Plat : Add(d, Parser(p))
    \/ pc = "idle" /\ \E d \in Dom : Get(d, FALSE)
    \/ \E p \in Plat : ClearPlatform(p)
InitCatalog == Init /\ missFile = <<>>
CatalogSpec == InitCatalog /\ [][NextCatalog]_vars

----------------------------------------------------------------------------
\* The missing-domain queue under its callers (LedgerSpec).

\* The lines appended to the file since the program started.
Appended == IF missFile = <<>> THEN <<>> ELSE Tail(missFile)

\* C1: whatever the order of the writeMiss calls and of the completions, at
\* most one writeMiss loop awaits an appendFile.
C1_SingleWriter == Loops <= 1

C1_Witness ==
    /\ last.op = "writeMiss"
    /\ Len(missQueue) >= 2
    /\ Loops = 1

\* C2: as long as no append fails, the domains appended followed by the
\* domains queued are the domains enqueued, in that order, each once; a
\* call that does not make the queue one long starts no append; and the
\* queue is drained in the end.
C2_InOrderOnce ==
    /\ [](~failed => Appended \o missQueue = enqueued)
    /\ [][(enqueued' # enqueued /\ Len(missQueue') # 1) => appending' = appending]_vars
    /\ (~failed /\ missQueue # <<>>) ~> (failed \/ missQueue = <<>>)

\* Three domains were enqueued behind one whose append has since ended.
C2_Witness ==
    /\ ~failed
    /\ last.op = "appended"
    /\ Len(Appended) = 1
    /\ Len(missQueue) = 3

\* C3: a rejected appendFile takes its domain off the front of the queue,
\* and the domains queued behind it are drained all the same.
C3_DrainGoesOn ==
    /\ [][(last'.op = "appended" /\ last'.threw) => missQueue' = Shift(missQueue)]_vars
    /\ (failed /\ missQueue # <<>>) ~> (missQueue = <<>>)

----------------------------------------------------------------------------
\* A rebuild (InitSpec).

\* The failures of one platform's registration that the claim names: a
\* manifest that does not parse, no parser file, no pkb folder, a pkb that
\* does not parse.
PlatformFailure == {"json", "parser", "pkbdir", "extract"}

\* C4: the failure of one platform's addDomainsOf does not make init() fail.
C4_PlatformIsolation ==
    ~(last.op = "init" /\ last.threw /\ last.ret.kind \in PlatformFailure)

----------------------------------------------------------------------------
\* The registry under its callers (RegistrySpec).

Owners(d) == {p \in Plat : platforms[p].has /\ d \in platforms[p].domains}

\* The candidate list get(d) returns has a parser of platform p.
Resolves(doms, d, p) ==
    /\ GetReturn(doms, d).kind = "list"
    /\ \E i \in 1..Len(GetReturn(doms, d).list) : GetReturn(doms, d).list[i].platform = p

\* C5: add(d, parser of P) does not fail, and get(d) then returns a list
\* with a parser of P.
C5_AddThenGet ==
    last.op = "add" => (~last.threw /\ Resolves(domains, last.dom, last.plat))

\* C6: clearPlatform(P) leaves the domains only P owned unresolved, and the
\* domains P shared with Q resolved to the parser of Q.
C6_ClearKeepsShared ==
    [][\A p \in Plat : (last'.op = "clearPlatform" /\ last'.plat = p /\ platforms[p].has) =>
          \A d \in platforms[p].domains :
             /\ Owners(d) = {p} => GetReturn(domains', d) = Miss
             /\ \A q \in Owners(d) \ {p} :
                    Resolves(domains, d, q) => Resolves(domains', d, q)]_vars

\* C7: add(d, parser of Q) for a domain whose list holds the one parser of
\* another platform P leaves the list <<parser of P, parser of Q>>, and no
\* add takes a parser off any list.
C7_SecondPlatformAppended ==
    [][(last'.op = "add" /\ ~last'.threw) =>
          /\ \A d \in Dom : domains[d].kind = "list" =>
                /\ domains'[d].kind = "list"
                /\ Len(domains'[d].list) >= Len(domains[d].list)
                /\ SubSeq(domains'[d].list, 1, Len(domains[d].list)) = domains[d].list
          /\ LET d == last'.dom
                 q == last'.plat
             IN  (/\ domains[d].kind = "list"
                  /\ Len(domains[d].list) = 1
                  /\ domains[d].list[1].platform # q)
                 => domains'[d] = Parsers(<<domains[d].list[1], Parser(q)>>)]_vars

\* C8: add(d, parser of P) when P owns d changes neither map.
C8_AddIdempotent ==
    [][(last'.op = "add" /\ platforms[last'.plat].has
            /\ last'.dom \in platforms[last'.plat].domains) =>
          (domains' = domains /\ platforms' = platforms)]_vars

C10_NegativeCache ==
    /\ (last.op = "get" /\ last.ret = Miss) => domains[last.dom] = Miss
    /\ \A i, j \in 1..Len(enqueued) : enqueued[i] = enqueued[j] => i = j

-----------------------------------------------------------------------------
\* The reconciliation of the file at the end of a rebuild (ReconcileSpec).

\* init() has resolved and nothing was called since.
Resolved == last.op = "init" /\ last.ret.kind = "resolved"

\* The lines after the first line of a file that no platform has registered.
Unclaimed(file) ==
    {file[i] : i \in 2..Len(file)} \ {k \in Key : Owners(k) # {}}

\* s holds each member of S once, in ascending order of the lower-case forms.
IsAscending(s, S) ==
    /\ Len(s) = Cardinality(S)
    /\ {s[i] : i \in 1..Len(s)} = S
    /\ \A i \in 1..Len(s) : \A j \in 1..Len(s) :
           i < j => Rank(ToLowerCase(s[i])) < Rank(ToLowerCase(s[j]))

\* C11: when init() reads a file that starts with the header, the lines it
\* goes on to write are the lines of that file that no platform has registered
\* after the scan, each once, in ascending case-insensitive order, and the file
\* it leaves when it resolves is exactly the header followed by those lines.
C11_Reconciled ==
    [][/\ (pc = "readFile" /\ pc' = "writeFile")
           => IsAscending(locals'.lines, Unclaimed(missFile))
       /\ (pc = "writeFile" /\ rebuilt')
           => missFile' = <<"domain">> \o locals.lines]_vars

\* C13: whatever the first line of the file that init() found (no file, an
\* empty file, another first line), the file starts with the header `domain`
\* (blanks around it aside) once the header check of the reconciliation has
\* run, and with `domain` itself when init() has resolved.
C13_HeaderRepaired ==
    /\ pc = "writeFile" => (missFile # <<>> /\ Trim(Head(missFile)) = "domain")
    /\ Resolved => (missFile # <<>> /\ Head(missFile) = "domain")

\* The header was written over a file that had another first line and lines
\* after it.
C13_Witness == pc = "writeFile" /\ missFile = <<"domain">> /\ locals.lines # <<>>
-----------------------------------------------------------------------------
\* Lookups and appends around a rebuild (RebuildSpec).

\* The file has a line d.
InLedger(d) == \E i \in 1..Len(missFile) : missFile[i] = d

\* C12: a hostname that get() missed with write enabled before init() was
\* called, and that no platform claims, is a line of the file when that init()
\* has resolved, at the latest once no append is in flight any more (no append
\* having been rejected).
C12_MissDurable ==
    (Resolved /\ ~failed /\ Loops = 0) =>
        \A d \in owed : Owners(d) # {} \/ InLedger(d)

\* C14: once an init() has resolved, whatever lookups follow, no hostname is
\* on two lines after the header.
C14_LedgerUnique ==
    rebuilt =>
        \A i \in 2..Len(missFile) : \A j \in 2..Len(missFile) :
            (i # j /\ missFile[i] \in Dom) => missFile[i] # missFile[j]

\* C18: when init() replaces the queue while a drain loop awaits its append
\* and misses are enqueued afterwards, there is still at most one appendFile
\* in flight.
C18_SingleWriterAcrossRebuild ==
    (pc # "idle" \/ rebuilt) => Loops < 2
-----------------------------------------------------------------------------
\* The shape of the two maps (CatalogSpec, RegistrySpec).

\* The candidate list of d has a parser of platform p.
Lists(d, p) ==
    /\ domains[d].kind = "list"
    /\ \E i \in 1..Len(domains[d].list) : domains[d].list[i].platform = p

\* C15: after any calls of add, addMiss, get and clearPlatform and any
\* rebuilds, no candidate list holds two parsers of the same platform.
C15_OnePerPlatform ==
    \A d \in Key : \A i \in 1..Len(domains[d].list) : \A j \in 1..Len(domains[d].list) :
        i # j => domains[d].list[i].platform # domains[d].list[j].platform

\* After a rebuild that registered a domain from a manifest, add was called
\* for that domain and its list holds the parsers of two platforms.
C15_Witness ==
    /\ rebuilt
    /\ last.op = "add"
    /\ domains[last.dom].kind = "list"
    /\ Len(domains[last.dom].list) = 2
    /\ \E p \in Plat : \E f \in File :
           domains[last.dom].list[1] = [platform |-> p, file |-> f] /\ f # p

\* C16: a domain is in the owned set of a platform exactly when the
\* candidate list of the domain holds a parser of that platform.
C16_IndexConsistent ==
    \A d \in Dom : \A p \in Plat : (p \in Owners(d)) <=> Lists(d, p)

\* C17: no entry of the domain map is an empty list, and get never returns
\* one: an entry is false or a list of at least one parser.
C17_NoEmptyList ==
    /\ \A d \in Key : domains[d] # Parsers(<<>>)
    /\ last.op = "get" => last.ret # Parsers(<<>>)
-----------------------------------------------------------------------------
\* The order of the steps of a rebuild (InitSpec).

\* The positions of init() inside addDomainsOf.
InAddDomainsOf == {"manifest", "parser", "pkbdir", "extract"}

\* C19: init() handles the directories of the listing one at a time and in
\* order: addDomainsOf starts from the stat of its directory, keeps that
\* directory until it returns, registers parsers of that directory only, goes
\* on to the knowledge base when the manifest names one, and the next
\* directory is the head of those still to come; the file is read only when
\* none is still to come.
C19_OneAtATime ==
    [][/\ pc' = "manifest" => (pc = "stat" /\ locals' = locals)
       /\ (pc \in InAddDomainsOf /\ pc' \in InAddDomainsOf)
           => (locals'.item = locals.item /\ locals'.items = locals.items)
       /\ (pc = "parser" /\ pc' \in {"stat", "readFile"}) => ~locals.pkb
       /\ \A p \in Plat : (~platforms[p].has /\ platforms'[p].has)
           => (pc \in {"parser", "extract"} /\ platforms'[p].parser.file = locals.item)
       /\ (pc' = "stat" /\ pc # "readdir")
           => /\ locals.items # <<>>
              /\ locals'.item = Head(locals.items)
              /\ locals'.items = Tail(locals.items)
       /\ pc' = "readFile" => locals.items = <<>>]_vars

\* The second directory is being registered and a platform of the first is
\* in the registry.
C19_Witness ==
    /\ pc = "parser"
    /\ locals.item = "Q"
    /\ \E p \in Plat : platforms[p].has /\ platforms[p].parser.file = "P"
-----------------------------------------------------------------------------
\* The hot reload of the parsers (CacheSpec).

\* C20: when clearCachedParsers() has returned, the parser file of no
\* registered platform is in the module cache.
C20_CacheCleared ==
    last.op = "clearCachedParsers" =>
        \A p \in Plat : platforms[p].has => platforms[p].parser.file \notin cached
-----------------------------------------------------------------------------
\* The parser objects of a platform (BindingSpec).

\* C21: every parser of platform P in a candidate list is the parser that
\* getFromPlatform(P) returns, the one recorded when P was first added since
\* it was last cleared, also when a later add for P passed another object.
C21_CanonicalBinding ==
    \A d \in Key : \A i \in 1..Len(domains[d].list) :
        GetFromPlatformReturn(platforms, domains[d].list[i].platform) = domains[d].list[i]
====
